---- MODULE Spec2Model ----
(***************************************************************************)
(* Webhook message-processing pipeline of the Telegram AI assistant bot:   *)
(* app.webhook -> TelegramBot.handle_webhook_update -> process_message ->  *)
(* (handle_command | GeminiService.generate_response | handle_photo |      *)
(* handle_document), over the MongoDB collections users, conversations and *)
(* file_messages.                                                          *)
(*                                                                         *)
(* Texts are sequences of strings.  A text that comes from the user is     *)
(* spelled character by character, so that startswith and strip are        *)
(* computed; a literal of the program is one element holding the literal.  *)
(* One step of a request is one access to the store, to the platform or to *)
(* the completion service; the code between two accesses is local to the   *)
(* request and is executed with the access that precedes it.               *)
(* Local file-system calls (NamedTemporaryFile, open, os.unlink) are taken *)
(* to succeed.                                                             *)
(***************************************************************************)
EXTENDS Integers, Sequences, FiniteSets, TLC

\* ---------------------------------------------------------------- bounds
NumUsers == 2
NumWorkers == 2
MaxUpdates == 2
MaxSaves == 4
MaxHistory == 21
MaxTies == 1
MaxLimit == 3

UserIds == 1..NumUsers
Workers == 1..NumWorkers

\* ------------------------------------------------------- program constants
max_context_messages == 20
ContextWindow == 10
MaxFileSize == 20 * 1024 * 1024

\* Python's None, and Some(x) for a value that is present.
None == <<>>
Some(x) == <<x>>

\* str(telegram_id): the decimal numeral of a small positive integer.
Digits == <<"0", "1", "2", "3", "4", "5", "6", "7", "8", "9">>
str(n) == IF n < 10 THEN Digits[n + 1] ELSE Digits[(n \div 10) + 1] \o Digits[(n % 10) + 1]

Reverse(s) == [i \in 1..Len(s) |-> s[Len(s) + 1 - i]]
Min(a, b) == IF a <= b THEN a ELSE b
Max(a, b) == IF a >= b THEN a ELSE b

\* ------------------------------------------------------ conversation store
VARIABLES
    bot,            \* app.bot: None or the shared TelegramBot
    configValid,    \* whether Config.validate() passes in this deployment
    webhookUrl,     \* whether a webhook base URL is configured in this deployment
    users,          \* collection users: a set of User documents
    conversations,  \* collection conversations, in insertion order
    file_messages,  \* collection file_messages, in insertion order
    now,            \* datetime.utcnow(), at the store's resolution
    nextId,         \* the next document id
    tempFiles,      \* the temporary files that exist, by creating request
    rq,             \* per request handler: position and locals
    handled,        \* updates received so far
    probe           \* the last direct call of a store operation and its result

vars == <<bot, configValid, webhookUrl, users, conversations, file_messages, now, nextId,
          tempFiles, rq, handled, probe>>

\* Conversation(user=str(user.telegram_id), ...).save()
save_message(convs, id, uid, message_type, content, ts) ==
    Append(convs, [id |-> id, user |-> str(uid), message_type |-> message_type,
                   content |-> content, timestamp |-> ts])

\* The timestamps datetime.utcnow() may give a new entry of user uid, as the
\* store keeps them.  Every query filters by user, so only the order of one
\* user's entries is observed: the entry is stamped as the user's latest entry
\* (the clock has not advanced since, at the store's resolution) or later than
\* every entry.
Stamps(convs, uid, clock) ==
    {clock + 1} \cup {e.timestamp : e \in {convs[i] : i \in {j \in DOMAIN convs :
        /\ convs[j].user = str(uid)
        /\ \A k \in DOMAIN convs : convs[k].user = str(uid) => convs[k].timestamp <= convs[j].timestamp}}}

\* The orders in which a sort on -timestamp may return the documents at the
\* positions S: equal timestamps are returned in any order.
RECURSIVE NewestFirst(_, _)
NewestFirst(convs, S) ==
    IF S = {} THEN {<<>>}
    ELSE LET top == {i \in S : \A j \in S : convs[j].timestamp <= convs[i].timestamp}
         IN UNION {{<<convs[i]>> \o r : r \in NewestFirst(convs, S \ {i})} : i \in top}

\* The lists get_conversation_context may return; limit 0 stands for a falsy
\* limit (None), which leaves the query unlimited.
get_conversation_context_oldest(convs, uid, limit) ==
    LET S == {i \in DOMAIN convs : convs[i].user = str(uid)}
    IN {IF limit # 0 /\ Len(q) > limit THEN SubSeq(Reverse(q), 1, limit) ELSE Reverse(q)
            : q \in NewestFirst(convs, S)}
get_conversation_context(convs, uid, limit) ==
    LET S == {i \in DOMAIN convs : convs[i].user = str(uid)}
        Limited(q) == IF limit # 0 /\ Len(q) > limit THEN SubSeq(q, 1, limit) ELSE q
    IN {Reverse(Limited(q)) : q \in NewestFirst(convs, S)}

\* Conversation.objects(user=str(telegram_id)).delete(): the collection that
\* is left.  The count the queryset returns is dropped by clear_context.
clear_context_all(convs, uid) == <<>>
clear_context(convs, uid) == SelectSeq(convs, LAMBDA e : e.user # str(uid))
DeleteCount(convs, uid) == Len(SelectSeq(convs, LAMBDA e : e.user = str(uid)))

\* ------------------------------------------------------------------ texts
MessageTypes == {"user", "assistant"}
T_Hi == <<"H", "i">>
T_Blank == <<" ", " ">>
T_Start == <<"/", "s", "t", "a", "r", "t">>
T_Help == <<"/", "h", "e", "l", "p">>
T_Clear == <<"/", "c", "l", "e", "a", "r">>
T_ClearX == <<"/", "c", "l", "e", "a", "r", "x">>
T_Other == <<"/", "x">>
T_Caption == <<"n", "i", "c", "e">>
Whitespace == {" ", "\t", "\n"}

\* str.startswith
startswith(s, prefix) == Len(s) >= Len(prefix) /\ SubSeq(s, 1, Len(prefix)) = prefix

\* str.strip
RECURSIVE lstrip(_)
lstrip(s) == IF s # <<>> /\ Head(s) \in Whitespace THEN lstrip(Tail(s)) ELSE s
strip(s) == Reverse(lstrip(Reverse(lstrip(s))))

\* x in s, for a text s and one element x
Contains(s, x) == \E i \in DOMAIN s : s[i] = x
\* whether text part occurs in text s
Within(s, part) == \E i \in 0..(Len(s) - Len(part)) : SubSeq(s, i + 1, i + Len(part)) = part

\* dict.get(key, default) for an optional value
Get(opt, default) == IF opt = None THEN default ELSE opt[1]
\* truth value of an optional text
Truthy(opt) == opt # None /\ opt[1] # <<>>

\* the literals the program replies with
NoPhotoReply == <<"I didn't receive any photo. Please try sending it again.">>
PhotoDownloadReply == <<"Sorry, I couldn't download your image. Please try again.">>
TooLargeReply == <<"Sorry, the file is too large. Please send files smaller than 20MB.">>
DocDownloadReply == <<"Sorry, I couldn't download your file. Please try again.">>
HelpReply == <<"AI Assistant Bot Help">>
ClearedReply == <<"Conversation history cleared! We can start fresh.">>
UnknownCommandReply == <<"Unknown command. Use /help to see available commands or just send me a message to chat!">>
ProcessFailedReply == <<"Sorry, I encountered an error processing your message. Please try again.">>
PhotoFailedReply == <<"Sorry, I encountered an error processing your image. Please try again.">>
PromptForInputReply == <<"Please send me a message and I'll be happy to help!">>
TechnicalReply == <<"I'm experiencing some technical difficulties right now. Please try again later.">>
NoResponseReply == <<"I'm sorry, I couldn't generate a response right now.">>
WelcomeReply == <<"Welcome! I'm an AI assistant powered by Google Gemini.">>
ImageFailedReply == <<"I'm sorry, I couldn't analyze this image. Please try again later.">>
NoImageAnalysisReply == <<"I could not analyze this image.">>
DocFailedReply == <<"I'm sorry, I couldn't analyze this document. Please try again later.">>
NoDocAnalysisReply == <<"I could not analyze this document.">>
UpdatedPrefix == <<"Updated response:">>
\* response.text of a completion that produced text
AIText == <<"A", "I">>

UnreadableReply(file_name) ==
    <<"I received your document '">> \o file_name \o <<"' but couldn't read its content.">>
UnsupportedReply(file_name, mime_type) ==
    <<"I received your file '">> \o file_name \o <<"' (">> \o Get(mime_type, <<"unknown type">>)
        \o <<"). I can currently analyze text files and images.">>
ImageNote_NoCaption(caption) == <<"[Sent an image">> \o <<"]">>
ImageNote(caption) ==
    <<"[Sent an image">> \o (IF Truthy(caption) THEN <<": ">> \o caption[1] ELSE <<>>) \o <<"]">>
FileNote(file_name) == <<"[Sent a file: ">> \o file_name \o <<"]">>

\* str.capitalize of a message type
capitalize(t) == IF t = "user" THEN "User" ELSE IF t = "assistant" THEN "Assistant" ELSE t

\* ---------------------------------------------------------------- updates
Profile(uid) == [username |-> Some(<<"user", str(uid)>>), first_name |-> Some(<<"First", str(uid)>>),
                 last_name |-> Some(<<"Last", str(uid)>>)]
NoProfile == [username |-> None, first_name |-> None, last_name |-> None]

Doc(size, mime) == Some([file_id |-> "doc", file_name |-> <<"notes.txt">>, file_size |-> size, mime_type |-> mime])
M_Text == Some(<<"text", "/", "plain">>)
M_Image == Some(<<"image", "/", "png">>)
M_Pdf == Some(<<"application", "/", "pdf">>)
M_Fodt == Some(<<"application", "/", "vnd.oasis.opendocument.", "text", "-flat-xml">>)

\* the message of a private chat with sender uid, without content
Bare(uid) == [chat |-> TRUE, from |-> uid, profile |-> Profile(uid), photo |-> None,
              caption |-> None, document |-> None, text |-> None]
TextMsg(uid, t) == [Bare(uid) EXCEPT !.text = Some(t)]
\* photo: the number of size entries; NoFileId: one entry without "file_id"
NoFileId == 0 - 1
PhotoMsg(uid, sizes, caption) == [Bare(uid) EXCEPT !.photo = Some(sizes), !.caption = caption]
DocMsg(uid, size, mime) == [Bare(uid) EXCEPT !.document = Doc(size, mime)]

\* a text message of a sender whose last name has changed, and nothing else
Renamed(uid) == [TextMsg(uid, T_Hi) EXCEPT !.profile.last_name = Some(<<"Other">>)]

\* every shape of message process_message tells apart
AllMessages(uid) ==
    {TextMsg(uid, t) : t \in {T_Hi, T_Blank, T_Start, T_Help, T_Clear, T_ClearX, T_Other}}
    \cup {Bare(uid), [Bare(uid) EXCEPT !.chat = FALSE], Renamed(uid)}
    \cup {PhotoMsg(uid, 2, Some(T_Caption)), PhotoMsg(uid, 0, None), PhotoMsg(uid, NoFileId, None),
          [PhotoMsg(uid, 1, None) EXCEPT !.document = Doc(Some(1), M_Text)],
          [PhotoMsg(uid, 1, None) EXCEPT !.text = Some(T_Clear)]}
    \cup {DocMsg(uid, Some(MaxFileSize), M_Text), DocMsg(uid, Some(MaxFileSize + 1), M_Text),
          DocMsg(uid, None, M_Image), DocMsg(uid, Some(1), M_Pdf), DocMsg(uid, Some(1), None),
          DocMsg(uid, Some(1), M_Fodt),
          [DocMsg(uid, Some(1), M_Text) EXCEPT !.text = Some(T_Hi)]}
\* the messages that write to the store
FewMessages(uid) == {TextMsg(uid, T_Hi), TextMsg(uid, T_Clear), PhotoMsg(uid, 2, Some(T_Caption))}
\* the first user sends every shape, the other users the shapes that write
Messages(uid) == IF uid = 1 THEN AllMessages(uid) ELSE FewMessages(uid)
EditedMessages == {TextMsg(1, T_Hi), TextMsg(1, T_Help), DocMsg(1, Some(MaxFileSize + 1), M_Text)}

NoMessage == [Bare(0) EXCEPT !.profile = NoProfile]
\* the update objects: {"message": m}, {"edited_message": m}, {"foo": 1}, {}
Updates ==
    {[kind |-> "message", message |-> m] : m \in UNION {Messages(uid) : uid \in UserIds}}
    \cup {[kind |-> "edited_message", message |-> m] : m \in EditedMessages}
    \cup {[kind |-> "other", message |-> NoMessage], [kind |-> "empty", message |-> NoMessage]}

\* ---------------------------------------------------------- store harness
NoProbe == [op |-> "none", user |-> 0, limit |-> 0, ok |-> TRUE, ret |-> None,
            result |-> <<>>, before |-> <<>>, deleted |-> 0, streak |-> 0, first |-> 0]

\* ------------------------------------------------------- a request's state
\* pc: the access the request performs next.  update .. answer: locals of the
\* handlers.  status .. fms: what the request has done so far.
NewRequest(n, upd, had) ==
    [pc |-> "get_bot", n |-> n, update |-> upd,
     had |-> had,           \* the sender's stored conversation entries on arrival
     shared |-> FALSE,      \* another update of the sender was in flight meanwhile
     bot |-> None,          \* current_bot of webhook
     built |-> FALSE,       \* the request constructed a TelegramBot
     registered |-> 0,      \* setWebhook calls
     fn |-> "",             \* the GeminiService method that is running
     args |-> NoProfile,    \* username, first_name, last_name of get_or_create_user
     user |-> None,         \* the User document get_or_create_user holds
     fm |-> 0,              \* the id of file_msg
     inbound |-> <<>>,      \* content of the user entry to save
     answer |-> <<>>,       \* ai_response / analysis_result
     reply |-> None,        \* response_text of handle_webhook_update
     sent |-> None,         \* text passed to send_message
     status |-> 0,          \* HTTP status of the webhook response
     path |-> <<>>,         \* the handlers process_message called
     prompt |-> None,       \* the prompts passed to generate_content
     appended |-> <<>>,     \* the conversation entries saved
     ids |-> <<>>,          \* and their ids
     fms |-> {},            \* the ids of the FileMessage documents created
     temps |-> 0,           \* temporary files created
     writes |-> 0,          \* store writes attempted
     completions |-> 0,     \* generate_content calls
     lookups |-> 0,         \* getFile calls
     downloads |-> 0,       \* file content downloads
     typing |-> 0,          \* sendChatAction calls
     typed |-> "",          \* the outcome of send_typing_action
     sends |-> 0,           \* sendMessage calls
     choices |-> <<>>,      \* the outcomes of the calls, in the order they were made
     failed |-> {}]         \* the calls that raised or were refused

Idle == [NewRequest(0, [kind |-> "empty", message |-> NoMessage], 0) EXCEPT !.pc = "idle"]

Init ==
    /\ bot = None
    /\ configValid \in BOOLEAN
    /\ webhookUrl \in BOOLEAN
    /\ users = {}
    /\ conversations = <<>>
    /\ file_messages = <<>>
    /\ now = 0
    /\ nextId = 1
    /\ tempFiles = {}
    /\ rq = [w \in Workers |-> Idle]
    /\ handled = 0
    /\ probe = NoProbe

StoreInit == Init /\ configValid /\ webhookUrl

StoreFrame == UNCHANGED <<bot, configValid, webhookUrl, users, file_messages, tempFiles, rq, handled>>

\* save_message(user, message_type, content), the clock having advanced or not
StoreSave(uid, message_type) ==
    /\ nextId <= MaxSaves
    /\ \E ts \in Stamps(conversations, uid, now) :
        /\ now' = Max(now, ts)
        /\ conversations' = save_message(conversations, nextId, uid, message_type, T_Hi, ts)
    /\ nextId' = nextId + 1
    /\ probe' = NoProbe
    /\ StoreFrame

\* get_conversation_context(user, limit)
StoreQuery(uid, limit) ==
    /\ \E r \in get_conversation_context(conversations, uid, limit) :
        probe' = [NoProbe EXCEPT !.op = "query", !.user = uid, !.limit = limit, !.result = r]
    /\ UNCHANGED <<conversations, now, nextId>>
    /\ StoreFrame

\* clear_context(telegram_id): a store error is logged and swallowed
StoreClear(uid) ==
    /\ \E ok \in BOOLEAN :
        /\ conversations' = IF ok THEN clear_context(conversations, uid) ELSE conversations
        /\ probe' = [NoProbe EXCEPT !.op = "clear", !.user = uid, !.ok = ok,
                        !.ret = None,
                        !.before = conversations,
                        !.deleted = IF ok THEN DeleteCount(conversations, uid) ELSE 0,
                        !.streak = IF probe.op = "clear" /\ probe.user = uid /\ probe.ok
                                   THEN Min(probe.streak + 1, 2) ELSE 1,
                        !.first = IF probe.op = "clear" /\ probe.user = uid /\ probe.ok
                                  THEN probe.first
                                  ELSE IF ok THEN DeleteCount(conversations, uid) ELSE 0]
    /\ UNCHANGED <<now, nextId>>
    /\ StoreFrame

StoreNext ==
    \/ \E uid \in UserIds, t \in MessageTypes : StoreSave(uid, t)
    \/ \E uid \in UserIds, limit \in 1..MaxLimit : StoreQuery(uid, limit)
    \/ \E uid \in UserIds : StoreClear(uid)

StoreSpec == StoreInit /\ [][StoreNext]_vars

\* ------------------------------------------------------------- the pipeline
Sender(r) == r.update.message.from
IsMedia(r) == r.path # <<>> /\ Head(r.path) \in {"photo", "document"}

\* process_message: the handling path of a message
Route_DocumentFirst(m) ==
    IF m.document # None THEN "document"
    ELSE IF m.photo # None THEN "photo"
    ELSE IF startswith(Get(m.text, <<>>), <<"/">>) THEN "command"
    ELSE IF strip(Get(m.text, <<>>)) # <<>> THEN "text"
    ELSE "prompt"
Route(m) ==
    IF m.photo # None THEN "photo"
    ELSE IF m.document # None THEN "document"
    ELSE IF startswith(Get(m.text, <<>>), <<"/">>) THEN "command"
    ELSE IF strip(Get(m.text, <<>>)) # <<>> THEN "text"
    ELSE "prompt"

\* handle_command with == in the place of startswith
Command_Exact(text) ==
    IF text = T_Start THEN "start"
    ELSE IF text = T_Help THEN "help"
    ELSE IF text = T_Clear THEN "clear"
    ELSE "unknown"
\* handle_command: the branch a command text takes
Command(text) ==
    IF startswith(text, T_Start) THEN "start"
    ELSE IF startswith(text, T_Help) THEN "help"
    ELSE IF startswith(text, T_Clear) THEN "clear"
    ELSE "unknown"

\* handle_document: the size check
TooLarge_AtLimit(file_size) == file_size >= MaxFileSize
TooLarge(file_size) == file_size > MaxFileSize

\* os.unlink(temp_path) in the finally clause of handle_photo / handle_document
Unlink_Skipped(files, n) == files
Unlink(files, n) == files \ {n}

\* users.insert under the unique index on telegram_id: the collection that
\* results; a document with a telegram_id already present is refused
InsertUser_NoIndex(coll, doc) == coll \cup {doc}
InsertUser_Refused(coll, doc) == coll
InsertUser(coll, doc) ==
    IF \E u \in coll : u.telegram_id = doc.telegram_id THEN coll ELSE coll \cup {doc}

\* the reply of the except clause of the running GeminiService method
FallbackReply_Router(fn) == ProcessFailedReply
FallbackReply(fn) ==
    IF fn = "analyze_image" THEN ImageFailedReply
    ELSE IF fn = "analyze_document" THEN DocFailedReply
    ELSE TechnicalReply

\* the outcome c of the call the request is at is on record
Chose(r, c) == [r EXCEPT !.choices = Append(@, <<r.pc>> \o c)]

\* an exception that nothing catches on its way to handle_webhook_update
Raise_Propagated(r, what) ==
    [Chose(r, <<what>>) EXCEPT !.pc = "done", !.status = 500, !.failed = @ \cup {what}]
\* an exception in the running method: caught by its except clause
Raise(r, what) ==
    [Chose(r, <<what>>) EXCEPT !.reply = Some(FallbackReply(r.fn)), !.pc = "send",
                                     !.failed = @ \cup {what}]
\* the handler returns text to handle_webhook_update
Return(r, text) == [r EXCEPT !.reply = Some(text), !.pc = "send"]

\* the request's next state; a call whose outcome was not a choice is put on
\* record as made; a media handler that returns runs its finally
To(w, r2) ==
    /\ rq' = [rq EXCEPT ![w] = IF r2.choices = @.choices THEN [r2 EXCEPT !.choices = Append(@, <<rq[w].pc>>)]
                                ELSE r2]
    /\ tempFiles' = IF r2.pc = "send" /\ IsMedia(r2) THEN Unlink(tempFiles, r2.n) ELSE tempFiles

\* recent_messages[-10:] rendered as "Role: content" lines
RenderContext_Head(recent) ==
    LET first == SubSeq(recent, 1, Min(ContextWindow, Len(recent)))
    IN [i \in 1..Len(first) |-> <<capitalize(first[i].message_type), ": ">> \o first[i].content]
RenderContext(recent) ==
    LET last == SubSeq(recent, Max(1, Len(recent) - ContextWindow + 1), Len(recent))
    IN [i \in 1..Len(last) |-> <<capitalize(last[i].message_type), ": ">> \o last[i].content]
\* full_prompt of generate_response
BuildPrompt_NoHistory(lines, message) == [form |-> "raw", lines |-> <<>>, message |-> message]
BuildPrompt(lines, message) ==
    IF lines # <<>> THEN [form |-> "history", lines |-> lines, message |-> <<>>]
    ELSE [form |-> "raw", lines |-> <<>>, message |-> message]

\* the webhook endpoint is called with an update of the pool; the request
\* handlers are interchangeable, and the free one of lowest number takes it
Receive(w, pool) ==
    /\ rq[w].pc \in {"idle", "done"}
    /\ \A v \in Workers : v < w => rq[v].pc \notin {"idle", "done"}
    /\ handled < MaxUpdates
    /\ \E upd \in pool :
        LET busy == {v \in Workers \ {w} : /\ rq[v].pc \notin {"idle", "done"}
                                            /\ Sender(rq[v]) = upd.message.from}
        IN rq' = [v \in Workers |->
                    IF v = w THEN [NewRequest(handled + 1, upd, DeleteCount(conversations, upd.message.from))
                                      EXCEPT !.shared = busy # {}]
                    ELSE IF v \in busy THEN [rq[v] EXCEPT !.shared = TRUE]
                    ELSE rq[v]]
    /\ handled' = handled + 1
    /\ UNCHANGED <<bot, configValid, webhookUrl, users, conversations, file_messages, now, nextId,
                   tempFiles, probe>>

\* get_bot: the test `bot is None`, and the return of an existing bot
GetBot(w) ==
    /\ rq[w].pc = "get_bot"
    /\ rq' = [rq EXCEPT ![w] = IF bot = None THEN [@ EXCEPT !.pc = "bot_init"]
                                ELSE [@ EXCEPT !.pc = "handle", !.bot = bot]]
    /\ UNCHANGED <<bot, configValid, webhookUrl, users, conversations, file_messages, now, nextId,
                   tempFiles, handled, probe>>

\* get_bot: Config.validate() and bot = TelegramBot(...); a failure is raised
\* to webhook, which answers 500
BotInit(w) ==
    /\ rq[w].pc = "bot_init"
    /\ IF configValid
       THEN /\ bot' = Some(rq[w].n)
            /\ rq' = [rq EXCEPT ![w] = [@ EXCEPT !.pc = "set_webhook", !.built = TRUE]]
       ELSE /\ bot' = bot
            /\ rq' = [rq EXCEPT ![w] = [@ EXCEPT !.pc = "done", !.status = 500,
                                                 !.failed = @ \cup {"config"}]]
    /\ UNCHANGED <<configValid, webhookUrl, users, conversations, file_messages, now, nextId,
                   tempFiles, handled, probe>>

\* get_bot: bot.set_webhook(...) when a base URL is configured, its outcome
\* dropped, and `return bot`, which reads the global again
SetWebhook(w) ==
    /\ rq[w].pc = "set_webhook"
    /\ rq' = [rq EXCEPT ![w] = [@ EXCEPT !.pc = "handle", !.bot = bot,
                                         !.registered = IF webhookUrl THEN @ + 1 ELSE @]]
    /\ UNCHANGED <<bot, configValid, webhookUrl, users, conversations, file_messages, now, nextId,
                   tempFiles, handled, probe>>

\* handle_photo up to the download; largest_photo["file_id"] raises KeyError
\* for an entry without the key, which the except clause of handle_photo
\* turns into its reply
EnterPhoto(r, m) ==
    IF m.photo[1] = 0 THEN Return(r, NoPhotoReply)
    ELSE IF m.photo[1] = NoFileId
         THEN Return([r EXCEPT !.failed = @ \cup {"payload"}], PhotoFailedReply)
    ELSE [r EXCEPT !.pc = "download", !.temps = @ + 1, !.inbound = ImageNote(m.caption)]

\* handle_document up to the download
EnterDocument(r, m) ==
    IF TooLarge(Get(m.document[1].file_size, 0))
    THEN Return(r, TooLargeReply)
    ELSE [r EXCEPT !.pc = "download", !.temps = @ + 1, !.inbound = FileNote(m.document[1].file_name)]

\* handle_command up to its first call
EnterCommand(r, m) ==
    LET c == Command(Get(m.text, <<>>))
    IN IF c = "start" THEN [r EXCEPT !.pc = "welcome"]
       ELSE IF c = "help" THEN Return(r, HelpReply)
       ELSE IF c = "clear" THEN [r EXCEPT !.pc = "clear"]
       ELSE Return(r, UnknownCommandReply)

\* process_message up to the first call of the handler it selects
Process(r, m) ==
    LET route == Route(m)
        r1 == [r EXCEPT !.path = Append(@, route)]
    IN IF route = "photo" THEN EnterPhoto(r1, m)
       ELSE IF route = "document" THEN EnterDocument(r1, m)
       ELSE IF route = "command" THEN EnterCommand(r1, m)
       ELSE IF route = "text"
            THEN [r1 EXCEPT !.pc = "user_find", !.fn = "generate_response",
                            !.args = [m.profile EXCEPT !.first_name = Some(Get(@, <<"User">>))],
                            !.inbound = m.text[1]]
       ELSE Return(r1, PromptForInputReply)

\* handle_webhook_update, the edited_message branch: process_message(message)
Reprocess_TextOnly(r, m) ==
    Process(r, [m EXCEPT !.photo = None, !.document = None])
Reprocess(r, m) == Process(r, m)

\* handle_webhook_update, an update with neither message nor edited_message:
\* True is returned, and webhook answers 200
Unhandled_False(r) == [r EXCEPT !.pc = "done", !.status = 500]
Unhandled(r) == [r EXCEPT !.pc = "done", !.status = 200]

\* send_typing_action(chat_id): a failure is logged and nothing else
Typing_Skipped(r, o) == r
Typing(r, o) == [Chose([r EXCEPT !.pc = "typing"], <<o>>) EXCEPT !.pc = r.pc, !.typing = @ + 1, !.typed = o]

\* webhook after get_bot: request.get_json(), handle_webhook_update up to the
\* first call process_message makes to the store, the platform's file API or
\* the completion service; outcomes: what sendChatAction may answer
TypingOutcomes == {"ok", "failed"}
Handle(w, outcomes) ==
    LET r == rq[w]
        u == r.update
        r2(o) == IF u.kind = "empty" THEN [r EXCEPT !.pc = "done", !.status = 400]
                 ELSE IF u.kind = "other" THEN Unhandled(r)
                 ELSE IF ~u.message.chat
                      THEN [r EXCEPT !.pc = "done", !.status = 500, !.failed = @ \cup {"chat"}]
                 ELSE IF u.kind = "message" THEN Process(Typing(r, o), u.message)
                 ELSE Reprocess(Typing(r, o), u.message)
    IN /\ r.pc = "handle"
       /\ \E o \in outcomes :
            /\ rq' = [rq EXCEPT ![w] = r2(o)]
            /\ tempFiles' = IF r2(o).pc = "download" THEN tempFiles \cup {r.n} ELSE tempFiles
       /\ UNCHANGED <<bot, configValid, webhookUrl, users, conversations, file_messages, now, nextId,
                      handled, probe>>

\* download_file: what it returns when getFile fails ("no_info"), when the
\* content request fails ("no_content") and when both succeed ("ok")
download_file_Unchecked(o) == o # "no_info"
download_file(o) == o = "ok"

\* download_file: getFile, then the content; False on any failure
Download(w) ==
    LET r == rq[w]
        photo == Head(r.path) = "photo"
    IN /\ r.pc = "download"
       /\ \E o \in {"no_info", "no_content", "ok"} :
            LET r1 == [Chose(r, <<o>>) EXCEPT !.lookups = @ + 1,
                                          !.downloads = IF o = "no_info" THEN @ ELSE @ + 1]
            IN To(w, IF download_file(o)
                     THEN [r1 EXCEPT !.pc = "user_find", !.args = NoProfile,
                                     !.fn = IF photo THEN "analyze_image" ELSE "analyze_document"]
                     ELSE [Return(r1, IF photo THEN PhotoDownloadReply ELSE DocDownloadReply)
                              EXCEPT !.failed = @ \cup {"download"}])
       /\ UNCHANGED <<bot, configValid, webhookUrl, users, conversations, file_messages, now, nextId,
                      handled, probe>>

AfterUser(r) == IF r.fn = "generate_response" THEN "save_user" ELSE "fm_create"

\* get_or_create_user: User.objects(telegram_id=telegram_id).first() and the
\* comparison of the stored display fields
UserFind(w) ==
    LET r == rq[w]
        found == {u \in users : u.telegram_id = Sender(r)}
    IN /\ r.pc = "user_find"
       /\ \/ To(w, Raise(r, "store"))
          \/ /\ found = {}
             /\ To(w, [r EXCEPT !.pc = "user_insert", !.user = None])
          \/ \E u \in found :
                To(w, [r EXCEPT !.user = Some(u),
                                !.pc = IF u.username # r.args.username
                                          \/ u.first_name # r.args.first_name
                                       THEN "user_update" ELSE AfterUser(r)])
       /\ UNCHANGED <<bot, configValid, webhookUrl, users, conversations, file_messages, now, nextId,
                      handled, probe>>

\* get_or_create_user: User(...).save() of a new document
UserInsert(w) ==
    LET r == rq[w]
        doc == [id |-> nextId, telegram_id |-> Sender(r), username |-> r.args.username,
                first_name |-> r.args.first_name, last_name |-> r.args.last_name,
                updated_at |-> now]
        r1 == [r EXCEPT !.writes = @ + 1]
    IN /\ r.pc = "user_insert"
       /\ \/ /\ To(w, Raise(r1, "store"))
             /\ UNCHANGED <<users, nextId>>
          \/ /\ users' = InsertUser(users, doc)
             /\ nextId' = nextId + 1
             /\ To(w, IF doc \in users' THEN [r1 EXCEPT !.user = Some(doc), !.pc = AfterUser(r)]
                      ELSE Raise(r1, "duplicate"))
       /\ UNCHANGED <<bot, configValid, webhookUrl, conversations, file_messages, now, handled, probe>>

\* get_or_create_user: user.save() after the display fields were overwritten
UserUpdate(w) ==
    LET r == rq[w]
        doc == [r.user[1] EXCEPT !.username = r.args.username,
                                 !.first_name = r.args.first_name,
                                 !.last_name = r.args.last_name, !.updated_at = now]
        r1 == [r EXCEPT !.writes = @ + 1]
    IN /\ r.pc = "user_update"
       /\ \/ /\ To(w, Raise(r1, "store"))
             /\ UNCHANGED users
          \/ /\ users' = {IF u.id = doc.id THEN doc ELSE u : u \in users}
             /\ To(w, [r1 EXCEPT !.user = Some(doc), !.pc = AfterUser(r)])
       /\ UNCHANGED <<bot, configValid, webhookUrl, conversations, file_messages, now, nextId,
                      handled, probe>>

\* The timestamps a save of request w may get.  Between the saves of two
\* requests handled one after the other, and between the two saves of
\* generate_response, lies a call over the network, and the clock has
\* advanced at the store's resolution (milliseconds).  It may not have
\* advanced between two saves made back to back (the two save_message calls
\* of analyze_image and analyze_document), and since a save of another
\* request of the same sender that is handled at the same time.
SaveStamps(w, back_to_back) ==
    IF back_to_back \/ rq[w].shared
    THEN Stamps(conversations, Sender(rq[w]), now)
    ELSE {now + 1}

\* save_message(user, "user", ...)
SaveUser(w) ==
    LET r == rq[w]
        r1 == [r EXCEPT !.writes = @ + 1]
    IN /\ r.pc = "save_user"
       /\ \/ /\ To(w, Raise(r1, "store"))
             /\ UNCHANGED <<conversations, now, nextId>>
          \/ \E ts \in SaveStamps(w, FALSE) :
             /\ now' = Max(now, ts)
             /\ conversations' = save_message(conversations, nextId, Sender(r), "user", r.inbound, ts)
             /\ nextId' = nextId + 1
             /\ To(w, [Chose(r1, <<str(ts)>>) EXCEPT
                          !.appended = Append(@, [message_type |-> "user", content |-> r.inbound]),
                          !.ids = Append(@, nextId),
                          !.pc = IF r.fn = "generate_response" THEN "context" ELSE "save_assistant"])
       /\ UNCHANGED <<bot, configValid, webhookUrl, users, file_messages, handled, probe>>

\* generate_response: get_conversation_context(user, 20) and the prompt
Context(w) ==
    LET r == rq[w]
    IN /\ r.pc = "context"
       /\ \/ To(w, Raise(r, "store"))
          \/ \E recent \in get_conversation_context(conversations, Sender(r), max_context_messages) :
                To(w, [Chose(r, [i \in DOMAIN recent |-> str(recent[i].id)]) EXCEPT
                          !.prompt = Some(BuildPrompt(RenderContext(recent), r.inbound)),
                          !.pc = "complete"])
       /\ UNCHANGED <<bot, configValid, webhookUrl, users, conversations, file_messages, now, nextId,
                      handled, probe>>

\* generate_response: client.models.generate_content(...)
Complete(w) ==
    LET r == rq[w]
        r1 == [r EXCEPT !.completions = @ + 1]
    IN /\ r.pc = "complete"
       /\ \E o \in {"text", "empty", "raise"} :
            To(w, IF o = "raise" THEN Raise(r1, "completion")
                  ELSE [Chose(r1, <<o>>) EXCEPT !.answer = IF o = "text" THEN AIText ELSE NoResponseReply,
                                  !.pc = "save_assistant"])
       /\ UNCHANGED <<bot, configValid, webhookUrl, users, conversations, file_messages, now, nextId,
                      handled, probe>>

\* save_message(user, "assistant", ...) and the return of the text
SaveAssistant(w) ==
    LET r == rq[w]
        r1 == [r EXCEPT !.writes = @ + 1]
    IN /\ r.pc = "save_assistant"
       /\ \/ /\ To(w, Raise(r1, "store"))
             /\ UNCHANGED <<conversations, now, nextId>>
          \/ \E ts \in SaveStamps(w, r.fn # "generate_response") :
             /\ now' = Max(now, ts)
             /\ conversations' = save_message(conversations, nextId, Sender(r), "assistant", r.answer, ts)
             /\ nextId' = nextId + 1
             /\ To(w, Return([Chose(r1, <<str(ts)>>) EXCEPT !.appended = Append(@, [message_type |-> "assistant",
                                                                           content |-> r.answer]),
                                                             !.ids = Append(@, nextId)],
                              r.answer))
       /\ UNCHANGED <<bot, configValid, webhookUrl, users, file_messages, handled, probe>>

\* where analyze_document goes after file_msg.save()
DocumentBranch(mime_type) ==
    IF mime_type # None /\ Contains(mime_type[1], "text") THEN "text"
    ELSE IF mime_type # None /\ Contains(mime_type[1], "image") THEN "image"
    ELSE "other"

\* analyze_document, image branch: analyze_image(telegram_id, file_id,
\* file_path) with the path of the file handle_document downloaded
AnalyzeAsImage_Redownload(r) ==
    [r EXCEPT !.pc = "user_find", !.fn = "analyze_image", !.args = NoProfile,
              !.inbound = ImageNote(None), !.lookups = @ + 1, !.downloads = @ + 1]
AnalyzeAsImage(r) ==
    [r EXCEPT !.pc = "user_find", !.fn = "analyze_image", !.args = NoProfile,
              !.inbound = ImageNote(None)]

\* analyze_image / analyze_document: FileMessage(..., processed=False).save()
FileCreate(w) ==
    LET r == rq[w]
        d == r.update.message.document
        photo == r.fn = "analyze_image"
        doc == [id |-> nextId, user |-> str(Sender(r)),
                file_type |-> IF photo THEN "photo" ELSE "document",
                mime_type |-> IF photo THEN None ELSE d[1].mime_type,
                processed |-> FALSE, analysis_result |-> None]
        r1 == [r EXCEPT !.writes = @ + 1]
        r2 == [r1 EXCEPT !.fm = doc.id, !.fms = @ \cup {doc.id}]
        branch == DocumentBranch(d[1].mime_type)
    IN /\ r.pc = "fm_create"
       /\ \/ /\ To(w, Raise(r1, "store"))
             /\ UNCHANGED <<file_messages, nextId>>
          \/ /\ file_messages' = Append(file_messages, doc)
             /\ nextId' = nextId + 1
             /\ To(w, IF photo THEN [r2 EXCEPT !.pc = "vision"]
                      ELSE IF branch = "text" THEN [r2 EXCEPT !.pc = "doc_complete"]
                      ELSE IF branch = "image" THEN AnalyzeAsImage(r2)
                      ELSE [r2 EXCEPT !.pc = "fm_update",
                                      !.answer = UnsupportedReply(d[1].file_name, d[1].mime_type)])
       /\ UNCHANGED <<bot, configValid, webhookUrl, users, conversations, now, handled, probe>>

\* analyze_image: the file is read and passed to generate_content
Vision(w) ==
    LET r == rq[w]
        r1 == [r EXCEPT !.completions = @ + 1]
    IN /\ r.pc = "vision"
       /\ IF r.n \notin tempFiles THEN To(w, Raise(r, "file"))
          ELSE \E o \in {"text", "empty", "raise"} :
                 To(w, IF o = "raise" THEN Raise(r1, "completion")
                       ELSE [Chose(r1, <<o>>) EXCEPT !.answer = IF o = "text" THEN AIText ELSE NoImageAnalysisReply,
                                       !.pc = "fm_update"])
       /\ UNCHANGED <<bot, configValid, webhookUrl, users, conversations, file_messages, now, nextId,
                      handled, probe>>

\* analyze_document, text branch: the file is read as UTF-8 and summarised;
\* the inner except clause turns any failure into the could-not-read text
DocComplete(w) ==
    LET r == rq[w]
        name == r.update.message.document[1].file_name
    IN /\ r.pc = "doc_complete"
       /\ \E o \in {"unreadable", "text", "empty", "raise"} :
            To(w, [Chose(r, <<o>>) EXCEPT !.completions = IF o = "unreadable" THEN @ ELSE @ + 1,
                            !.failed = IF o \in {"unreadable", "raise"} THEN @ \cup {"read"} ELSE @,
                            !.answer = IF o = "text" THEN AIText
                                       ELSE IF o = "empty" THEN NoDocAnalysisReply
                                       ELSE UnreadableReply(name),
                            !.pc = "fm_update"])
       /\ UNCHANGED <<bot, configValid, webhookUrl, users, conversations, file_messages, now, nextId,
                      handled, probe>>

\* file_msg.analysis_result = ...; file_msg.processed = True: the document
\* that the one save() writes
MarkProcessed_FlagOnly(f, text) == [f EXCEPT !.processed = TRUE]
MarkProcessed(f, text) == [f EXCEPT !.processed = TRUE, !.analysis_result = Some(text)]

\* file_msg.analysis_result = ...; file_msg.processed = True; file_msg.save()
FileUpdate(w) ==
    LET r == rq[w]
        r1 == [r EXCEPT !.writes = @ + 1]
    IN /\ r.pc = "fm_update"
       /\ \/ /\ To(w, Raise(r1, "store"))
             /\ UNCHANGED file_messages
          \/ /\ file_messages' = [i \in DOMAIN file_messages |->
                    IF file_messages[i].id = r.fm
                    THEN MarkProcessed(file_messages[i], r.answer)
                    ELSE file_messages[i]]
             /\ To(w, [r1 EXCEPT !.pc = "save_user"])
       /\ UNCHANGED <<bot, configValid, webhookUrl, users, conversations, now, nextId, handled, probe>>

\* handle_command, /start: get_welcome_message
Welcome(w) ==
    LET r == rq[w]
    IN /\ r.pc = "welcome"
       /\ \E o \in {"text", "empty", "raise"} :
            To(w, Return([Chose(r, <<o>>) EXCEPT !.completions = @ + 1,
                                             !.failed = IF o = "raise" THEN @ \cup {"completion"} ELSE @],
                         IF o = "text" THEN AIText ELSE WelcomeReply))
       /\ UNCHANGED <<bot, configValid, webhookUrl, users, conversations, file_messages, now, nextId,
                      handled, probe>>

\* handle_command, /clear: clear_context, which swallows a store error
Clear(w) ==
    LET r == rq[w]
        r1 == [r EXCEPT !.writes = @ + 1]
    IN /\ r.pc = "clear"
       /\ \/ /\ To(w, Return([Chose(r1, <<"store">>) EXCEPT !.failed = @ \cup {"store"}],
                              ClearedReply))
             /\ UNCHANGED conversations
          \/ /\ conversations' = clear_context(conversations, Sender(r))
             /\ To(w, Return(r1, ClearedReply))
       /\ UNCHANGED <<bot, configValid, webhookUrl, users, file_messages, now, nextId, handled, probe>>

\* webhook: the status of the response for what handle_webhook_update
\* returned, which is what send_message returned
Acknowledge_Always(success) == 200
Acknowledge(success) == IF success THEN 200 ELSE 500

\* send_message and the response of webhook
Send(w) ==
    LET r == rq[w]
        text == IF r.update.kind = "edited_message" THEN UpdatedPrefix \o r.reply[1] ELSE r.reply[1]
    IN /\ r.pc = "send"
       /\ \E ok \in BOOLEAN :
            rq' = [rq EXCEPT ![w] = [Chose(r, <<IF ok THEN "ok" ELSE "failed">>) EXCEPT
                                        !.sends = @ + 1, !.sent = Some(text), !.pc = "done",
                                        !.status = Acknowledge(ok),
                                        !.failed = IF ok THEN @ ELSE @ \cup {"send"}]]
       /\ UNCHANGED <<bot, configValid, webhookUrl, users, conversations, file_messages, now, nextId,
                      tempFiles, handled, probe>>

\* One request at a time: every shape of update, handled to its end before
\* the next one is received.
Next ==
    \/ Receive(1, Updates) \/ GetBot(1) \/ BotInit(1) \/ SetWebhook(1) \/ Handle(1, TypingOutcomes) \/ Download(1)
    \/ UserFind(1) \/ UserInsert(1) \/ UserUpdate(1) \/ SaveUser(1) \/ Context(1)
    \/ Complete(1) \/ SaveAssistant(1) \/ FileCreate(1) \/ Vision(1) \/ DocComplete(1)
    \/ FileUpdate(1) \/ Welcome(1) \/ Clear(1) \/ Send(1)

Spec == Init /\ [][Next]_vars

\* a step of the request handler w: every call it makes returns or fails
Step(w) ==
    \/ GetBot(w) \/ BotInit(w) \/ SetWebhook(w) \/ Handle(w, TypingOutcomes) \/ Download(w)
    \/ UserFind(w) \/ UserInsert(w) \/ UserUpdate(w) \/ SaveUser(w) \/ Context(w)
    \/ Complete(w) \/ SaveAssistant(w) \/ FileCreate(w) \/ Vision(w) \/ DocComplete(w)
    \/ FileUpdate(w) \/ Welcome(w) \/ Clear(w) \/ Send(w)

\* One request at a time, no call pending forever.
LiveSpec == Init /\ [][Next]_vars /\ WF_vars(Step(1))

\* Requests handled concurrently, each by its own handler, interleaved at
\* every access: the updates that read and write the store.
ParUpdates ==
    {[kind |-> "message", message |-> m] :
        m \in {TextMsg(1, T_Hi), TextMsg(1, T_Clear), PhotoMsg(1, 2, Some(T_Caption)), TextMsg(2, T_Hi)}}

ParNext ==
    \E w \in Workers :
        \/ Receive(w, ParUpdates) \/ GetBot(w) \/ BotInit(w) \/ SetWebhook(w) \/ Handle(w, {"ok"}) \/ Download(w)
        \/ UserFind(w) \/ UserInsert(w) \/ UserUpdate(w) \/ SaveUser(w) \/ Context(w)
        \/ Complete(w) \/ SaveAssistant(w) \/ FileCreate(w) \/ Vision(w)
        \/ FileUpdate(w) \/ Clear(w) \/ Send(w)

ParInit == Init /\ configValid /\ webhookUrl

ParSpec == ParInit /\ [][ParNext]_vars

\* One message handled twice from the same state of the store: first as
\* {"message": m}, then, the store put back as it was, as {"edited_message": m}.
EditStore == [bot |-> bot, users |-> users, conversations |-> conversations,
              file_messages |-> file_messages, now |-> now, nextId |-> nextId]
\* the updates that make the starting store
EditBefore ==
    {[kind |-> "message", message |-> m] : m \in {TextMsg(1, T_Hi), PhotoMsg(1, 2, Some(T_Caption))}}

\* {"message": m} arrives; the state of the store is kept on record
EditFirst ==
    /\ probe.op = "none"
    /\ rq[1].pc \in {"idle", "done"}
    /\ \E m \in AllMessages(1) :
        rq' = [rq EXCEPT ![1] = NewRequest(handled + 1, [kind |-> "message", message |-> m],
                                           DeleteCount(conversations, m.from))]
    /\ probe' = [op |-> "first", snap |-> EditStore, first |-> Idle, after |-> EditStore]
    /\ handled' = handled + 1
    /\ UNCHANGED <<bot, configValid, webhookUrl, users, conversations, file_messages, now, nextId, tempFiles>>

\* what {"message": m} did is kept on record, the store is put back and
\* {"edited_message": m} arrives
EditSecond ==
    /\ probe.op = "first"
    /\ rq[1].pc = "done"
    /\ probe' = [probe EXCEPT !.op = "second", !.first = rq[1], !.after = EditStore]
    /\ bot' = probe.snap.bot
    /\ users' = probe.snap.users
    /\ conversations' = probe.snap.conversations
    /\ file_messages' = probe.snap.file_messages
    /\ now' = probe.snap.now
    /\ nextId' = probe.snap.nextId
    /\ rq' = [rq EXCEPT ![1] = NewRequest(rq[1].n, [kind |-> "edited_message",
                                                    message |-> rq[1].update.message], rq[1].had)]
    /\ UNCHANGED <<configValid, webhookUrl, tempFiles, handled>>

EditNext ==
    \/ (probe.op = "none" /\ handled = 0 /\ Receive(1, EditBefore))
    \/ EditFirst \/ EditSecond
    \/ GetBot(1) \/ BotInit(1) \/ SetWebhook(1) \/ Handle(1, TypingOutcomes) \/ Download(1)
    \/ UserFind(1) \/ UserInsert(1) \/ UserUpdate(1) \/ SaveUser(1) \/ Context(1)
    \/ Complete(1) \/ SaveAssistant(1) \/ FileCreate(1) \/ Vision(1) \/ DocComplete(1)
    \/ FileUpdate(1) \/ Welcome(1) \/ Clear(1) \/ Send(1)

EditInit == Init /\ webhookUrl

EditSpec == EditInit /\ [][EditNext]_vars

\* An update whose reply could not be delivered is delivered again by the
\* platform, the store being as the first handling left it.
Redeliver ==
    /\ probe.op = "none"
    /\ rq[1].pc = "done" /\ rq[1].status = 500 /\ "send" \in rq[1].failed
    /\ probe' = [op |-> "redelivered", snap |-> EditStore, first |-> rq[1], after |-> EditStore]
    /\ rq' = [rq EXCEPT ![1] = NewRequest(handled + 1, rq[1].update,
                                           DeleteCount(conversations, Sender(rq[1])))]
    /\ handled' = handled + 1
    /\ UNCHANGED <<bot, configValid, webhookUrl, users, conversations, file_messages, now, nextId,
                   tempFiles>>

RedeliverNext ==
    \/ (handled = 0 /\ Receive(1, Updates))
    \/ Redeliver
    \/ GetBot(1) \/ BotInit(1) \/ SetWebhook(1) \/ Handle(1, TypingOutcomes) \/ Download(1)
    \/ UserFind(1) \/ UserInsert(1) \/ SaveUser(1) \/ Context(1)
    \/ Complete(1) \/ SaveAssistant(1) \/ FileCreate(1) \/ Vision(1) \/ DocComplete(1)
    \/ FileUpdate(1) \/ Welcome(1) \/ Clear(1) \/ Send(1)

RedeliverSpec == Init /\ [][RedeliverNext]_vars

\* A text message of a user with a long conversation: entries saved by earlier
\* calls, then "Hi" handled by generate_response.
\* the entries of user uid that got the timestamp of an earlier one
Ties(convs, uid) ==
    LET S == {i \in DOMAIN convs : convs[i].user = str(uid)}
    IN Cardinality(S) - Cardinality({convs[i].timestamp : i \in S})

\* an earlier get_or_create_user(uid, ...) and save_message(user, ...): user and
\* assistant entries in turn, each with a text of its own, the clock having
\* advanced or not
HistorySave(uid) ==
    LET k == DeleteCount(conversations, uid)
        known == \E u \in users : u.telegram_id = uid
        doc == [id |-> nextId, telegram_id |-> uid, username |-> Profile(uid).username,
                first_name |-> Profile(uid).first_name, last_name |-> Profile(uid).last_name,
                updated_at |-> now]
        id == IF known THEN nextId ELSE nextId + 1
    IN /\ handled = 0
       /\ k < (IF uid = 1 THEN MaxHistory ELSE 1)
       /\ \E ts \in Stamps(conversations, uid, now) :
            /\ ts <= now => Ties(conversations, uid) < MaxTies
            /\ now' = Max(now, ts)
            /\ conversations' = save_message(conversations, id, uid,
                                    IF k % 2 = 0 THEN "user" ELSE "assistant", <<"m", str(id)>>, ts)
       /\ users' = IF known THEN users ELSE InsertUser(users, doc)
       /\ nextId' = id + 1
       /\ UNCHANGED <<bot, configValid, webhookUrl, file_messages, tempFiles, rq, handled, probe>>

HistoryUpdates == {[kind |-> "message", message |-> TextMsg(1, T_Hi)]}

HistoryNext ==
    \/ \E uid \in UserIds : HistorySave(uid)
    \/ (handled = 0 /\ Receive(1, HistoryUpdates))
    \/ GetBot(1) \/ BotInit(1) \/ SetWebhook(1) \/ Handle(1, {"ok"}) \/ UserFind(1) \/ UserInsert(1) \/ SaveUser(1)
    \/ Context(1) \/ Complete(1) \/ SaveAssistant(1) \/ Send(1)

HistoryInit == Init /\ configValid /\ webhookUrl

HistorySpec == HistoryInit /\ [][HistoryNext]_vars
\* ------------------------------------------------------------- claims: store
Of(convs, uid) == SelectSeq(convs, LAMBDA e : e.user = str(uid))
NotOf(convs, uid) == SelectSeq(convs, LAMBDA e : e.user # str(uid))
Ids(s) == {s[i].id : i \in DOMAIN s}

\* C4: get_conversation_context(user, limit), for a positive limit, returns
\* exactly min(limit, n) of the n stored entries of that user, each once, none
\* of them older than a stored entry of the user it leaves out, ordered oldest
\* first (non-decreasing timestamp); its length never exceeds limit.
C4_RecentContext ==
    probe.op = "query" =>
        LET r == probe.result
            mine == Of(conversations, probe.user)
        IN /\ Len(r) = Min(probe.limit, Len(mine))
           /\ Len(r) <= probe.limit
           /\ \A i \in DOMAIN r : \E j \in DOMAIN mine : mine[j] = r[i]
           /\ Cardinality(Ids(r)) = Len(r)
           /\ \A i, j \in DOMAIN r : i < j => r[i].timestamp <= r[j].timestamp
           /\ \A j \in DOMAIN mine : mine[j].id \notin Ids(r) =>
                  \A i \in DOMAIN r : mine[j].timestamp <= r[i].timestamp

\* a query that the limit cuts between two entries of one timestamp, with
\* entries of two timestamps returned and another user's entry in the store
C4_Witness ==
    /\ probe.op = "query"
    /\ probe.limit >= 2
    /\ Len(Of(conversations, probe.user)) > probe.limit
    /\ Len(NotOf(conversations, probe.user)) > 0
    /\ \E e \in {Of(conversations, probe.user)[j] : j \in DOMAIN Of(conversations, probe.user)} :
          /\ e.id \notin Ids(probe.result)
          /\ \E i \in DOMAIN probe.result : probe.result[i].timestamp = e.timestamp
    /\ \E i, j \in DOMAIN probe.result : probe.result[i].timestamp < probe.result[j].timestamp

IsExchanges(log) ==
    /\ Len(log) % 2 = 0
    /\ \A i \in DOMAIN log : log[i].message_type = IF i % 2 = 1 THEN "user" ELSE "assistant"

\* C5 as stated: clearing after N text exchanges returns the count N, and a
\* second clear right after it returns 0.
C5_ClearReturnsN ==
    (probe.op = "clear" /\ probe.ok) =>
        LET mine == Of(probe.before, probe.user)
        IN /\ IsExchanges(mine) => probe.ret = Some(Len(mine) \div 2)
           /\ probe.streak = 2 => probe.ret = Some(0)

\* C5 as amended: after N text exchanges of a user (2N stored entries) a clear
\* that reaches the store deletes exactly these 2N entries, every entry of the
\* user and no entry of another user, and returns nothing; a second clear right
\* after it deletes 0 entries.
C5_ClearDeletesAll ==
    (probe.op = "clear" /\ probe.ok) =>
        LET mine == Of(probe.before, probe.user)
        IN /\ probe.ret = None
           /\ probe.deleted = Len(mine)
           /\ IsExchanges(mine) => probe.deleted = 2 * (Len(mine) \div 2)
           /\ Of(conversations, probe.user) = <<>>
           /\ conversations = NotOf(probe.before, probe.user)
           /\ probe.streak = 2 => probe.deleted = 0

\* two exchanges cleared, another user's entry kept, then a second clear
C5_Witness ==
    /\ probe.op = "clear" /\ probe.ok
    /\ probe.streak = 2
    /\ probe.first >= 2
    /\ probe.deleted = 0
    /\ Len(conversations) > 0

\* ---------------------------------------------------------- claims: pipeline
Msg(r) == r.update.message
Text(r) == Get(Msg(r).text, <<>>)
\* process_message has been called for the request's message
Routed(r) == r.pc \notin {"idle", "get_bot", "bot_init", "set_webhook", "handle"} /\ r.path # <<>>
Stored(id) == {file_messages[i] : i \in {j \in DOMAIN file_messages : file_messages[j].id = id}}

\* C1: process_message selects exactly one handling path by strict priority:
\* a photo present -> photo path; else a document present -> document path;
\* else text beginning with "/" -> command handler; else text non-empty after
\* trimming -> response builder; else the prompt-for-input reply.  The request
\* then runs the method of that path only.
C1_OnePathByPriority ==
    \A w \in Workers :
        LET r == rq[w]
            m == Msg(r)
            slash == Text(r) # <<>> /\ Text(r)[1] = "/"
            blank == \A i \in DOMAIN Text(r) : Text(r)[i] \in Whitespace
        IN Routed(r) =>
            /\ Len(r.path) = 1
            /\ r.path[1] = (IF m.photo # None THEN "photo"
                            ELSE IF m.document # None THEN "document"
                            ELSE IF slash THEN "command"
                            ELSE IF ~blank THEN "text"
                            ELSE "prompt")
            /\ r.path[1] = "photo" => r.fn \in {"", "analyze_image"}
            /\ r.path[1] = "document" => r.fn \in {"", "analyze_document", "analyze_image"}
            /\ r.path[1] = "command" => r.fn = "" /\ r.appended = <<>> /\ r.temps = 0
            /\ r.path[1] = "text" => r.fn = "generate_response" /\ r.temps = 0
            /\ r.path[1] = "prompt" =>
                  /\ r.reply = Some(PromptForInputReply)
                  /\ r.writes = 0 /\ r.completions = 0 /\ r.temps = 0
            /\ r.path[1] \in {"photo", "document"} => r.pc # "clear"

\* a photo whose text is /clear was analysed as a photo, and the entries of an
\* earlier exchange of the sender are still stored
C1_Witness ==
    \E w \in Workers :
        /\ rq[w].pc = "done"
        /\ Msg(rq[w]).photo # None /\ Msg(rq[w]).text = Some(T_Clear)
        /\ rq[w].reply = Some(AIText)
        /\ rq[w].had = 2
        /\ Len(Of(conversations, Sender(rq[w]))) = 4

\* what an update with neither key must have done when it is answered
NothingDone(r) ==
    /\ r.writes = 0 /\ r.completions = 0 /\ r.sends = 0
    /\ r.typing = 0 /\ r.lookups = 0 /\ r.appended = <<>> /\ r.fms = {}

C3_OneUserPerId ==
    \A u1, u2 \in users : u1.telegram_id = u2.telegram_id => u1 = u2

\* two requests of one sender both found no User; the save of the second was
\* refused by the unique index
C3_Witness ==
    \E w \in Workers :
        /\ "duplicate" \in rq[w].failed
        /\ \E u \in users : u.telegram_id = Sender(rq[w])

\* C6: a document whose reported size exceeds 20 MiB is answered with the
\* too-large text and nothing else is done for it: no getFile, no download, no
\* temporary file, no FileMessage, no conversation entry; a document of at
\* most 20 MiB is accepted: its temporary file is created and the download is
\* the next call.
C6_SizeLimit ==
    \A w \in Workers :
        LET r == rq[w]
            size == Get(Msg(r).document[1].file_size, 0)
        IN (Routed(r) /\ r.path[1] = "document") =>
            /\ size > 20 * 1024 * 1024 =>
                  /\ r.pc \in {"send", "done"}
                  /\ r.reply = Some(TooLargeReply)
                  /\ r.lookups = 0 /\ r.downloads = 0 /\ r.temps = 0
                  /\ r.fms = {} /\ r.appended = <<>> /\ r.writes = 0 /\ r.completions = 0
            /\ size <= 20 * 1024 * 1024 =>
                  /\ r.temps = 1
                  /\ r.reply # Some(TooLargeReply)
                  /\ r.pc = "download" \/ r.lookups = 1

\* a document of exactly 20 MiB was downloaded and analysed
C6_Witness ==
    \E w \in Workers :
        /\ rq[w].pc = "done" /\ rq[w].path = <<"document">>
        /\ Msg(rq[w]).document[1].file_size = Some(20 * 1024 * 1024)
        /\ rq[w].downloads = 1 /\ rq[w].reply = Some(AIText)

InFlight == {"download", "user_find", "user_insert", "user_update", "fm_create", "vision",
             "doc_complete", "fm_update", "save_user", "save_assistant"}

\* C7: a temporary file exists only while the media request that created it
\* is between its creation and the return of handle_photo / handle_document;
\* once the handler has returned, on any path, the file is gone.
C7_TempFilesRemoved ==
    /\ \A n \in tempFiles :
          \E w \in Workers : rq[w].n = n /\ IsMedia(rq[w]) /\ rq[w].pc \in InFlight
    /\ \A w \in Workers :
          (IsMedia(rq[w]) /\ rq[w].pc \in {"send", "done"}) => rq[w].n \notin tempFiles

\* a media request created its file and failed in the analysis
C7_Witness ==
    \E w \in Workers :
        /\ rq[w].pc = "send" /\ IsMedia(rq[w]) /\ rq[w].temps = 1
        /\ rq[w].downloads = 1
        /\ rq[w].failed \cap {"store", "completion"} # {}

\* a text message of a sender without stored entries, handled without failure
FirstText(r) ==
    /\ Routed(r) /\ r.path[1] = "text" /\ r.had = 0
    /\ r.failed \ {"send"} = {}

\* C8 as stated: for a sender with no stored entries the prompt has no
\* "Conversation history" section (the raw-message form); one user and one
\* assistant entry are appended and the reply is non-empty.
C8_FirstPromptRaw ==
    \A w \in Workers :
        LET r == rq[w]
        IN FirstText(r) =>
            /\ r.prompt # None => r.prompt[1].form = "raw"
            /\ r.pc = "done" =>
                  /\ r.appended = <<[message_type |-> "user", content |-> Text(r)],
                                    [message_type |-> "assistant", content |-> r.answer]>>
                  /\ r.reply # None /\ r.reply[1] # <<>>

\* C8 as amended: with no other update in flight, for a sender with no stored
\* entries the prompt has a "Conversation history" section of exactly one
\* line, "User: " and the inbound text, because the inbound entry is saved
\* before the context is fetched; one user and one assistant entry are
\* appended and the reply is the non-empty completion text.
C8_FirstPromptHistory ==
    \A w \in Workers :
        LET r == rq[w]
        IN FirstText(r) =>
            /\ r.prompt # None =>
                  r.prompt[1] = [form |-> "history", lines |-> << <<"User", ": ">> \o Text(r) >>,
                                 message |-> <<>>]
            /\ r.pc \in {"complete", "save_assistant", "send", "done"} => r.prompt # None
            /\ r.pc = "done" =>
                  /\ r.appended = <<[message_type |-> "user", content |-> Text(r)],
                                    [message_type |-> "assistant", content |-> r.answer]>>
                  /\ r.completions = 1
                  /\ r.reply = Some(r.answer) /\ r.answer # <<>>

\* the first "Hi" of a sender was answered by the completion service
C8_Witness ==
    \E w \in Workers :
        /\ FirstText(rq[w]) /\ rq[w].pc = "done" /\ rq[w].status = 200
        /\ Text(rq[w]) = T_Hi /\ rq[w].reply = Some(AIText)

\* C9: when the completion call raises while a text message is handled, the
\* reply is the fixed fallback text, the inbound text was saved as exactly one
\* user entry, which stays stored, and no assistant entry is appended.
C9_CompletionFailure ==
    \A w \in Workers :
        LET r == rq[w]
        IN (r.fn = "generate_response" /\ "completion" \in r.failed) =>
            /\ r.reply = Some(TechnicalReply)
            /\ r.appended = <<[message_type |-> "user", content |-> Text(r)]>>
            /\ Len(Of(conversations, Sender(r))) = r.had + 1
            /\ \E i \in DOMAIN conversations :
                  /\ conversations[i].user = str(Sender(r))
                  /\ conversations[i].message_type = "user"
                  /\ conversations[i].content = Text(r)
                  /\ \A j \in DOMAIN conversations : j > i => conversations[j].user # str(Sender(r))
            /\ (r.pc = "done" /\ r.update.kind = "message") => r.sent = Some(TechnicalReply)

\* the fallback text was delivered after a failed completion, for a sender
\* who already had an exchange stored
C9_Witness ==
    \E w \in Workers :
        /\ rq[w].pc = "done" /\ rq[w].fn = "generate_response"
        /\ "completion" \in rq[w].failed /\ rq[w].status = 200 /\ rq[w].had = 2

\* C10: a photo with a caption whose download, vision completion and store
\* writes succeed creates exactly one FileMessage, which is unprocessed and
\* without analysis until the completion returns and then processed with the
\* analysis text; two entries are appended, a user entry containing the
\* caption and then an assistant entry with the analysis, which is the reply.
C10_PhotoWithCaption ==
    \A w \in Workers :
        LET r == rq[w]
            caption == Msg(r).caption
        IN (Routed(r) /\ r.path[1] = "photo" /\ Truthy(caption)) =>
            /\ (r.pc \in {"vision", "fm_update"}) =>
                  /\ r.fms = {r.fm}
                  /\ \E f \in Stored(r.fm) : ~f.processed /\ f.analysis_result = None
            /\ (r.pc = "done" /\ r.failed \ {"send"} = {} /\ r.downloads = 1) =>
                  /\ Cardinality(r.fms) = 1
                  /\ Cardinality({i \in DOMAIN file_messages : file_messages[i].id \in r.fms}) = 1
                  /\ \A f \in Stored(r.fm) :
                        f.processed /\ f.analysis_result = Some(r.answer) /\ f.file_type = "photo"
                  /\ r.answer # <<>>
                  /\ Len(r.appended) = 2
                  /\ r.appended[1].message_type = "user"
                  /\ Within(r.appended[1].content, caption[1])
                  /\ r.appended[2] = [message_type |-> "assistant", content |-> r.answer]
                  /\ r.reply = Some(r.answer)

\* the captioned photo was analysed and the analysis delivered
C10_Witness ==
    \E w \in Workers :
        /\ rq[w].pc = "done" /\ rq[w].path = <<"photo">>
        /\ Msg(rq[w]).caption = Some(T_Caption)
        /\ rq[w].failed = {} /\ rq[w].reply = Some(AIText) /\ rq[w].status = 200
        /\ Len(rq[w].appended) = 2

\* -------------------------------------------------- claims: error handling
\* a message or edited-message update whose handling is finished
Answered(r) == r.pc = "done" /\ r.update.kind \in {"message", "edited_message"}
\* the text send_message is called with for reply text
Outgoing(r, text) == IF r.update.kind = "edited_message" THEN UpdatedPrefix \o text ELSE text

\* C11 as stated: when a store read or write raises while a message update is
\* handled, the webhook reports failure to the platform (a non-2xx status).
C11_StoreFailureReported ==
    \A w \in Workers :
        (Answered(rq[w]) /\ "store" \in rq[w].failed) => rq[w].status \notin 200..299

\* C11 as amended: a store exception raised while a message update is handled
\* is caught inside the handling path: the running GeminiService method
\* returns its fixed fallback text (clear_context logs the error and
\* handle_command returns the confirmation), that text is sent to the chat,
\* and the status of the webhook follows the send alone: 200 if the send
\* succeeds, 500 if it fails.
C11_StoreFailureAnswered ==
    \A w \in Workers :
        LET r == rq[w]
        IN (Answered(r) /\ "store" \in r.failed) =>
            /\ r.reply = Some(IF r.fn = "generate_response" THEN TechnicalReply
                              ELSE IF r.fn = "analyze_image" THEN ImageFailedReply
                              ELSE IF r.fn = "analyze_document" THEN DocFailedReply
                              ELSE ClearedReply)
            /\ r.fn = "" => r.path = <<"command">>
            /\ r.sends = 1 /\ r.sent = Some(Outgoing(r, r.reply[1]))
            /\ r.status = IF "send" \in r.failed THEN 500 ELSE 200

\* the store raised in get_or_create_user of a text message, the fallback
\* text was delivered and the update acknowledged
C11_Witness ==
    \E w \in Workers :
        /\ Answered(rq[w]) /\ "store" \in rq[w].failed /\ rq[w].status = 200
        /\ rq[w].path = <<"text">> /\ rq[w].writes = 0
        /\ rq[w].sent = Some(TechnicalReply)

\* a /clear command whose handling is finished
ClearHandled(r) ==
    /\ r.pc = "done" /\ r.update.kind = "message"
    /\ r.path = <<"command">> /\ Command(Text(r)) = "clear"

\* C12: after a /clear command of a user has been handled, whatever number of
\* entries the user had before, no conversation entry of that user is stored,
\* get_conversation_context for the user returns the empty list, and the
\* reply is the fixed confirmation text.
C12_EmptyAfterClear ==
    \A w \in Workers :
        ClearHandled(rq[w]) =>
            /\ Of(conversations, Sender(rq[w])) = <<>>
            /\ get_conversation_context(conversations, Sender(rq[w]), max_context_messages) = {<<>>}
            /\ rq[w].reply = Some(ClearedReply)

\* ------------------------------------------------------ claims: edited messages
IsPrefix(s, t) == Len(s) <= Len(t) /\ SubSeq(t, 1, Len(s)) = s

\* C13: from the same state of the store and with the same outcomes of the
\* calls to the store, the platform and the completion service, handling
\* {"edited_message": m} makes the same calls in the same order as handling
\* {"message": m} did, classifies m the same way, writes the same documents,
\* makes the same completion calls and ends with the same status; the text
\* it sends is the updated-response prefix followed by the reply that
\* {"message": m} produced.
C13_EditedAsNew ==
    probe.op = "second" =>
        LET e == rq[1]
            f == probe.first
        IN IsPrefix(e.choices, f.choices) =>
            /\ e.pc \notin {"get_bot", "bot_init", "set_webhook", "handle", "done"} =>
                  /\ Len(e.choices) < Len(f.choices)
                  /\ f.choices[Len(e.choices) + 1][1] = e.pc
                  /\ e.path = f.path
            /\ e.pc = "done" =>
                  /\ e.choices = f.choices
                  /\ [e EXCEPT !.update = f.update, !.sent = f.sent] = f
                  /\ EditStore = probe.after
                  /\ f.reply = None => e.sent = None
                  /\ f.reply # None =>
                        e.sent = Some(UpdatedPrefix \o f.reply[1]) /\ f.sent = f.reply

\* a photo with a caption, analysed and stored as a message and then again as
\* an edited message with the same outcomes, after an earlier exchange
C13_Witness ==
    /\ probe.op = "second"
    /\ rq[1].pc = "done" /\ rq[1].choices = probe.first.choices
    /\ rq[1].path = <<"photo">> /\ Len(rq[1].appended) = 2 /\ rq[1].had = 2
    /\ rq[1].status = 200
    /\ rq[1].sent = Some(UpdatedPrefix \o AIText)

\* ------------------------------------------------------------ claims: commands
\* a command whose handler has returned
CommandReturned(r) ==
    /\ Routed(r) /\ r.path = <<"command">> /\ r.pc \in {"send", "done"}
    /\ r.update.kind = "message"
Begins(t, lit) == Len(t) >= Len(lit) /\ \A i \in 1..Len(lit) : t[i] = lit[i]
\* the request made no store call and the sender's conversation is as it was
StoreUntouched(r) ==
    /\ r.writes = 0 /\ r.appended = <<>> /\ r.fms = {} /\ r.user = None
    /\ Len(Of(conversations, Sender(r))) = r.had

\* C14 as stated: /start yields a welcome, /help the help text, /clear clears
\* the sender's history and yields the confirmation, and every command text
\* that is not exactly one of the three, such as /clearx, yields the
\* unknown-command text; no command other than /clear changes the store.
C14_ExactCommands ==
    \A w \in Workers :
        LET r == rq[w]
            t == Text(r)
        IN CommandReturned(r) =>
            /\ t = <<"/", "s", "t", "a", "r", "t">> => r.reply[1] \in {AIText, WelcomeReply}
            /\ t = <<"/", "h", "e", "l", "p">> => r.reply = Some(HelpReply)
            /\ t = <<"/", "c", "l", "e", "a", "r">> => r.reply = Some(ClearedReply)
            /\ t \notin {<<"/", "s", "t", "a", "r", "t">>, <<"/", "h", "e", "l", "p">>,
                         <<"/", "c", "l", "e", "a", "r">>} => r.reply = Some(UnknownCommandReply)
            /\ t # <<"/", "c", "l", "e", "a", "r">> => StoreUntouched(r)

\* C14 as amended: commands are matched by prefix, in this order: a text that
\* begins with /start yields a welcome, one that begins with /help the help
\* text, one that begins with /clear (/clearx included) makes the clear call
\* for the sender and yields the confirmation, and every other text beginning
\* with "/" yields the unknown-command text.  No command whose text does not
\* begin with /clear makes a store call or changes the store.
C14_PrefixCommands ==
    \A w \in Workers :
        LET r == rq[w]
            t == Text(r)
            start == Begins(t, <<"/", "s", "t", "a", "r", "t">>)
            help == ~start /\ Begins(t, <<"/", "h", "e", "l", "p">>)
            clear == ~start /\ ~help /\ Begins(t, <<"/", "c", "l", "e", "a", "r">>)
        IN CommandReturned(r) =>
            /\ start => r.reply[1] \in {AIText, WelcomeReply} /\ r.completions = 1
            /\ help => r.reply = Some(HelpReply)
            /\ clear =>
                  /\ r.reply = Some(ClearedReply)
                  /\ r.writes = 1
                  /\ "store" \notin r.failed => Of(conversations, Sender(r)) = <<>>
            /\ (~start /\ ~help /\ ~clear) => r.reply = Some(UnknownCommandReply)
            /\ ~clear => StoreUntouched(r)
            /\ ~start => r.completions = 0

\* /clearx has cleared the two entries of the sender and was confirmed
C14_Witness ==
    \E w \in Workers :
        /\ CommandReturned(rq[w]) /\ rq[w].pc = "done"
        /\ Text(rq[w]) = <<"/", "c", "l", "e", "a", "r", "x">>
        /\ rq[w].had = 2 /\ Of(conversations, Sender(rq[w])) = <<>>
        /\ rq[w].sent = Some(ClearedReply)

\* ------------------------------------------------------- claims: media records
\* C15: every FileMessage has processed = true exactly when its analysis text
\* is set; a FileMessage is created with processed = false and no analysis
\* text; a write that sets processed sets the analysis text with it; a
\* processed FileMessage is never written again, so the change happens at most
\* once and neither processed nor the analysis text changes afterwards; no
\* FileMessage is removed.
C15_ProcessedWithAnalysis ==
    [][/\ \A i \in DOMAIN file_messages' :
            file_messages'[i].processed <=> file_messages'[i].analysis_result # None
       /\ Len(file_messages') >= Len(file_messages)
       /\ \A i \in DOMAIN file_messages :
            /\ file_messages'[i].id = file_messages[i].id
            /\ file_messages[i].processed => file_messages'[i] = file_messages[i]
            /\ file_messages'[i] # file_messages[i] =>
                  /\ file_messages'[i].processed /\ file_messages'[i].analysis_result # None
                  /\ file_messages'[i] = [file_messages[i] EXCEPT
                                             !.processed = TRUE,
                                             !.analysis_result = file_messages'[i].analysis_result]
       /\ \A i \in DOMAIN file_messages' \ DOMAIN file_messages :
            ~file_messages'[i].processed /\ file_messages'[i].analysis_result = None]_vars

\* a processed FileMessage with its analysis text next to one that has just
\* been created
C15_Witness ==
    \E i, j \in DOMAIN file_messages :
        /\ file_messages[i].processed /\ file_messages[i].analysis_result = Some(AIText)
        /\ ~file_messages[j].processed /\ file_messages[j].analysis_result = None
        /\ file_messages[i].user = file_messages[j].user

\* -------------------------------------------------------------- claims: users
\* get_or_create_user has just returned to the method that called it
UserReturned(r) == r.pc \in {"save_user", "fm_create"} /\ r.user # None

\* C16: when get_or_create_user returns for a sender who has a User, the
\* stored username, first name and last name are the supplied values,
\* whichever of the three differed before (the last name alone included), and
\* the method holds that stored document.
C16_UpsertOverwrites ==
    \A w \in Workers :
        LET r == rq[w]
        IN UserReturned(r) =>
            \E u \in users :
                /\ u.telegram_id = Sender(r)
                /\ r.user = Some(u)
                /\ u.username = r.args.username
                /\ u.first_name = r.args.first_name
                /\ u.last_name = r.args.last_name

\* ------------------------------------------------------------ claims: download
\* getFile or the content request of the request's download failed
DownloadFailed(r) ==
    \E i \in DOMAIN r.choices :
        r.choices[i] \in {<<"download", "no_info">>, <<"download", "no_content">>}

\* C17: when getFile or the content download fails for a photo or a document,
\* the handler returns the couldn't-download text of that media kind, no
\* exception is raised, and the update makes no FileMessage, no conversation
\* entry, no store call and no completion call; that text is what is sent.
C17_DownloadFailure ==
    \A w \in Workers :
        LET r == rq[w]
        IN DownloadFailed(r) =>
            /\ r.pc \in {"send", "done"}
            /\ r.path \in {<<"photo">>, <<"document">>}
            /\ r.reply = Some(IF r.path = <<"photo">>
                              THEN <<"Sorry, I couldn't download your image. Please try again.">>
                              ELSE <<"Sorry, I couldn't download your file. Please try again.">>)
            /\ r.failed \subseteq {"download", "send"}
            /\ r.fn = "" /\ r.user = None
            /\ r.fms = {} /\ r.appended = <<>> /\ r.writes = 0 /\ r.completions = 0
            /\ r.lookups = 1 /\ r.temps = 1
            /\ r.pc = "done" => r.sent = Some(Outgoing(r, r.reply[1]))

\* the content request of a document failed after getFile succeeded, and the
\* couldn't-download text was delivered
C17_Witness ==
    \E w \in Workers :
        /\ rq[w].pc = "done" /\ rq[w].path = <<"document">>
        /\ \E i \in DOMAIN rq[w].choices : rq[w].choices[i] = <<"download", "no_content">>
        /\ rq[w].downloads = 1 /\ rq[w].status = 200 /\ rq[w].had = 2

\* ----------------------------------------------------------- claims: documents
\* a document that was downloaded and handled to the end without a failure of
\* the store
DocumentDone(r) ==
    /\ r.pc = "done" /\ r.path = <<"document">>
    /\ r.downloads = 1 /\ r.failed \cap {"download", "store", "duplicate"} = {}

\* C18: for a downloaded document whose declared MIME type is neither text/*
\* nor image/*, or is absent, no completion call is made, the reply is the
\* cannot-analyze-this-type text, the document's FileMessage ends processed
\* with that text as analysis result, and a user entry and an assistant entry
\* are appended.
C18_UnsupportedType ==
    \A w \in Workers :
        LET r == rq[w]
            d == Msg(r).document[1]
            text == <<"I received your file '">> \o d.file_name \o <<"' (">>
                        \o (IF d.mime_type = None THEN <<"unknown type">> ELSE d.mime_type[1])
                        \o <<"). I can currently analyze text files and images.">>
        IN (DocumentDone(r) /\ (d.mime_type = None \/ d.mime_type[1][1] \notin {"text", "image"})) =>
            /\ r.completions = 0
            /\ r.reply = Some(text)
            /\ Cardinality(r.fms) = 1
            /\ \A f \in Stored(r.fm) : f.processed /\ f.analysis_result = Some(text)
            /\ r.appended = <<[message_type |-> "user",
                               content |-> <<"[Sent a file: ">> \o d.file_name \o <<"]">>],
                              [message_type |-> "assistant", content |-> text]>>

\* ------------------------------------------------------------ claims: totality
\* the texts process_message returns for the request's message
Replies(r) ==
    LET d == Msg(r).document
        name == IF d = None THEN <<>> ELSE d[1].file_name
        mime == IF d = None \/ d[1].mime_type = None THEN <<"unknown type">> ELSE d[1].mime_type[1]
    IN {AIText, NoPhotoReply, PhotoDownloadReply, PhotoFailedReply, TooLargeReply, DocDownloadReply,
        HelpReply, ClearedReply, UnknownCommandReply, PromptForInputReply, TechnicalReply,
        NoResponseReply, WelcomeReply, ImageFailedReply, NoImageAnalysisReply, DocFailedReply,
        NoDocAnalysisReply,
        <<"I received your document '">> \o name \o <<"' but couldn't read its content.">>,
        <<"I received your file '">> \o name \o <<"' (">> \o mime
            \o <<"). I can currently analyze text files and images.">>}

\* C19: process_message is total: whatever the message and whichever call
\* fails (completion service, getFile, download, reading the file, a missing
\* key of the payload), once it has been called it returns a non-empty text,
\* a generated one or one of the fixed texts, and no exception reaches
\* handle_webhook_update: the text is passed to send_message and the status
\* follows the send alone.
C19_ProcessMessageTotal ==
    \A w \in Workers :
        LET r == rq[w]
        IN Routed(r) =>
            /\ r.pc \in {"send", "done"} =>
                  /\ r.reply # None
                  /\ r.reply[1] # <<>>
                  /\ r.reply[1] \in Replies(r)
            /\ r.failed \ {"send", "read"} # {} => r.pc \in {"send", "done"}
            /\ r.pc = "done" =>
                  /\ r.sends = 1
                  /\ r.sent = Some(Outgoing(r, r.reply[1]))
                  /\ r.status = IF "send" \in r.failed THEN 500 ELSE 200

\* the vision call of a photo raised, and the fixed text was delivered
C19_Witness ==
    \E w \in Workers :
        /\ rq[w].pc = "done" /\ rq[w].path = <<"photo">>
        /\ "completion" \in rq[w].failed
        /\ rq[w].sent = Some(ImageFailedReply) /\ rq[w].status = 200

\* ------------------------------------------------------- claims: the context
\* the line of the prompt that shows a conversation entry
Line(e) == <<IF e.message_type = "user" THEN "User" ELSE "Assistant", ": ">> \o e.content
\* the stored entries of the user that a list of lines shows
Shown(mine, lines) == {j \in DOMAIN mine : \E i \in DOMAIN lines : lines[i] = Line(mine[j])}
\* the timestamp of the entry a line shows
StampOf(mine, line) == mine[CHOOSE j \in DOMAIN mine : Line(mine[j]) = line].timestamp
\* the entries have a line each of its own
Distinct(mine) == Cardinality({Line(mine[j]) : j \in DOMAIN mine}) = Len(mine)

\* C20: when generate_response fetches the context, the conversation entries
\* of the sender (each with a text of its own) being n in number, the inbound
\* entry included, the prompt gets exactly min(10, n) lines, each the line
\* "Role: content" of a stored entry of the sender with the role capitalized,
\* no entry twice, in order of non-decreasing timestamp, no entry left out
\* being later than an entry shown; with no other update of the sender in
\* flight while the message is handled, the last line is "User: " and the
\* inbound text.
C20_RenderedContext ==
    [][\A w \in Workers :
          /\ rq[w].pc = "context" /\ rq'[w].pc = "complete"
          /\ Distinct(Of(conversations, Sender(rq[w])))
          =>  LET mine == Of(conversations, Sender(rq[w]))
                  n == Len(mine)
                  p == rq'[w].prompt[1]
                  lines == p.lines
              IN /\ Len(lines) = Min(10, n)
                 /\ \A i \in DOMAIN lines : \E j \in DOMAIN mine : lines[i] = Line(mine[j])
                 /\ Cardinality(Shown(mine, lines)) = Len(lines)
                 /\ \A i, j \in DOMAIN lines :
                        i < j => StampOf(mine, lines[i]) <= StampOf(mine, lines[j])
                 /\ \A j \in DOMAIN mine \ Shown(mine, lines) :
                        \A i \in DOMAIN lines : mine[j].timestamp <= StampOf(mine, lines[i])
                 /\ ~rq[w].shared =>
                        n >= 1 /\ lines[Len(lines)] = <<"User", ": ">> \o Text(rq[w])
      ]_vars

\* the context was fetched for "Hi" of a user with more than 20 stored entries,
\* user and assistant entries among the ten shown, the oldest entry shown as
\* old as an entry left out, another user's entry in the store
C20_Witness ==
    \E w \in Workers :
        LET r == rq[w]
            mine == Of(conversations, Sender(r))
        IN /\ r.pc = "complete" /\ r.fn = "generate_response" /\ r.prompt # None
           /\ Len(mine) > 20
           /\ Len(NotOf(conversations, Sender(r))) > 0
           /\ Len(r.prompt[1].lines) = 10
           /\ r.prompt[1].lines[10] = <<"User", ": ">> \o T_Hi
           /\ \E i \in 1..9 : r.prompt[1].lines[i][1] = "Assistant"
           /\ \E j \in DOMAIN mine \ Shown(mine, r.prompt[1].lines) :
                  mine[j].timestamp = StampOf(mine, r.prompt[1].lines[1])

\* ------------------------------------------------------ claims: user records
\* the update carried a message of a chat and was handled to its end
Handled(r) == Answered(r) /\ Routed(r)
\* the request reached get_or_create_user: a text for the response builder,
\* or a photo or a document that was downloaded
Upserts(r) ==
    \/ r.path[1] = "text"
    \/ IsMedia(r) /\ r.downloads = 1 /\ "download" \notin r.failed
\* the platform user ids that have a User
Known(coll) == {u.telegram_id : u \in coll}

\* C21 as stated: once a message of any shape has been handled without a store
\* failure, the sender has a User.
C21_UserAfterAnyMessage ==
    \A w \in Workers :
        (Handled(rq[w]) /\ "store" \notin rq[w].failed) => Sender(rq[w]) \in Known(users)

\* C21 as amended: a User is created only by get_or_create_user, which runs
\* for a text passed to the response builder and for a photo or document
\* whose download succeeded; once such a message has been handled without a
\* store failure the sender has a User, while a command, a blank text, an
\* empty photo list, an oversize document or a failed download creates none;
\* no step removes a User or changes its platform user id.
C21_UserAfterUpsert ==
    [][/\ \A w \in Workers :
            (Handled(rq'[w]) /\ Upserts(rq'[w]) /\ "store" \notin rq'[w].failed)
                => Sender(rq'[w]) \in Known(users')
       /\ \A u \in users : \E v \in users' : v.id = u.id /\ v.telegram_id = u.telegram_id
       /\ Known(users') # Known(users) =>
            \E w \in Workers :
                /\ rq[w].pc = "user_insert" /\ Upserts(rq[w])
                /\ Known(users') = Known(users) \cup {Sender(rq[w])}
       /\ \A w \in Workers :
            (Handled(rq'[w]) /\ ~Upserts(rq'[w])) => rq'[w].user = None
      ]_vars

\* the photo of a sender without a User was handled, the User was created
\* and the User of another sender is still there
C21_Witness ==
    \E w \in Workers :
        LET r == rq[w]
        IN /\ Handled(r) /\ r.failed = {} /\ r.path = <<"photo">>
           /\ \E i \in DOMAIN r.choices : r.choices[i] = <<"user_insert">>
           /\ Sender(r) \in Known(users)
           /\ Cardinality(users) = 2

\* ------------------------------------------------- claims: concurrent texts
\* request v is a text of the sender of request w, handled at the same time,
\* whose user entry is saved and stored and whose assistant entry is not
BetweenSaves(w, v) ==
    /\ v # w /\ Sender(rq[v]) = Sender(rq[w])
    /\ rq[v].fn = "generate_response" /\ rq[v].pc \in {"context", "complete", "save_assistant"}
    /\ Len(rq[v].ids) = 1 /\ rq[v].ids[1] \in Ids(conversations)
\* no two entries of one role follow each other
Alternates(log) == \A i \in 1..(Len(log) - 1) : log[i].message_type # log[i + 1].message_type
\* the positions of a line in the prompt
Positions(lines, line) == {i \in DOMAIN lines : lines[i] = line}

\* C22: nothing keeps two text updates of one sender apart: when one fetches
\* its context while the other is between the save of its user entry and the
\* save of its assistant entry, the two user entries are stored before either
\* assistant entry, the sender's log does not alternate between user and
\* assistant, and the prompt of the one shows the inbound entry of the other
\* besides its own.
C22_NoSerialization ==
    [][\A w, v \in Workers :
          (rq[w].pc = "context" /\ rq'[w].pc = "complete" /\ BetweenSaves(w, v)
              /\ rq[w].ids[1] \in Ids(conversations))
          =>  LET mine == Of(conversations, Sender(rq[w]))
                  lines == rq'[w].prompt[1].lines
              IN /\ ~Alternates(mine)
                 /\ \E i, j \in DOMAIN mine :
                        /\ i # j /\ mine[i].id = rq[w].ids[1] /\ mine[j].id = rq[v].ids[1]
                        /\ mine[i].message_type = "user" /\ mine[j].message_type = "user"
                 /\ Len(rq[w].ids) = 1 /\ Len(rq[v].ids) = 1
                 /\ Cardinality(Positions(lines, <<"User", ": ">> \o rq[v].inbound))
                        >= (IF rq[v].inbound = rq[w].inbound THEN 2 ELSE 1)
      ]_vars

\* two "Hi" of one sender are handled at the same time: both user entries are
\* the last of the log, no assistant entry has followed, and the request that
\* has fetched its context has "User: Hi" twice at the end of its prompt
C22_Witness ==
    \E w, v \in Workers :
        /\ BetweenSaves(w, v) /\ BetweenSaves(v, w)
        /\ rq[w].pc = "complete" /\ rq[w].prompt # None
        /\ LET mine == Of(conversations, Sender(rq[w]))
               lines == rq[w].prompt[1].lines
           IN /\ Len(mine) >= 2 /\ Len(lines) = Len(mine)
              /\ mine[Len(mine)].message_type = "user" /\ mine[Len(mine) - 1].message_type = "user"
              /\ lines[Len(lines)] = <<"User", ": ">> \o T_Hi
              /\ lines[Len(lines) - 1] = <<"User", ": ">> \o T_Hi

\* ------------------------------------------------------ claims: the gateway
RECURSIVE Sum(_, _)
Sum(f, S) == IF S = {} THEN 0 ELSE LET x == CHOOSE y \in S : TRUE IN f[x] + Sum(f, S \ {x})

\* C23: over the requests that are being handled or were handled last by each
\* handler, at most one has constructed a TelegramBot, at most one setWebhook
\* call was made, and all that got a bot from get_bot got the same one, in
\* every interleaving.
C23_SingleGateway ==
    /\ Cardinality({w \in Workers : rq[w].built}) <= 1
    /\ Sum([w \in Workers |-> rq[w].registered], Workers) <= 1
    /\ \A w, v \in Workers : (rq[w].bot # None /\ rq[v].bot # None) => rq[w].bot = rq[v].bot

\* ------------------------------------------- claims: images sent as documents
\* a document that analyze_document passed on to analyze_image
ImageDocument(r) ==
    /\ Routed(r) /\ r.path = <<"document">> /\ r.fn = "analyze_image"

\* C24 as stated: a document of an image type is downloaded a second time for
\* the image analysis: two downloads are made for the update.
C24_DownloadedTwice ==
    \A w \in Workers :
        (ImageDocument(rq[w]) /\ rq[w].pc = "done") => rq[w].downloads = 2

\* C24 as amended: a document of an image type is downloaded once, by
\* handle_document; analyze_image is given the path of that temporary file and
\* reads it, so that the update makes one getFile call and one download, has
\* one temporary file, and the file is there when the image analysis reads it
\* and removed once the analysis has returned.
C24_DownloadedOnce ==
    \A w \in Workers :
        LET r == rq[w]
        IN ImageDocument(r) =>
            /\ r.lookups = 1 /\ r.downloads = 1 /\ r.temps = 1
            /\ r.pc \in {"user_find", "user_insert", "user_update", "fm_create", "vision"}
                  => r.n \in tempFiles
            /\ r.pc \in {"send", "done"} => r.n \notin tempFiles
            /\ Contains(Msg(r).document[1].mime_type[1], "image")

\* an image/png document was analysed by the vision model after one download
C24_Witness ==
    \E w \in Workers :
        /\ ImageDocument(rq[w]) /\ rq[w].pc = "done" /\ rq[w].failed = {}
        /\ Msg(rq[w]).document[1].mime_type = M_Image
        /\ rq[w].downloads = 1 /\ rq[w].completions = 1
        /\ rq[w].reply = Some(AIText)

\* --------------------------------------------------------- claims: completion
\* process_message was called for the update of the request
Dispatched(r) == r.pc # "idle" /\ r.path # <<>>
\* the final state of a request: one reply text, one send, one response
Completed(r) ==
    /\ r.pc = "done" /\ r.reply # None /\ r.reply[1] # <<>>
    /\ r.sends = 1 /\ r.sent # None
    /\ r.status \in {200, 500}

\* C25: every update for which process_message is called is handled to its
\* end when no call stays pending forever: the request reaches the final state
\* with exactly one reply text, one send_message call and one response of the
\* webhook; on the way no call is made twice for a retry: at most one getFile,
\* one download, one completion call and one send, and a failed call is
\* followed by the reply, never by the same call again.
C25_RunsToCompletion ==
    /\ \A w \in Workers : Dispatched(rq[w]) ~> Completed(rq[w])
    /\ [](\A w \in Workers :
            LET r == rq[w]
            IN /\ r.lookups <= 1 /\ r.downloads <= 1 /\ r.completions <= 1 /\ r.sends <= 1
               /\ r.failed \ {"send", "read"} # {} => r.pc \in {"send", "done"}
               /\ r.pc = "done" /\ Dispatched(r) => Completed(r))

\* a text whose completion call raised was handled to its end: the fallback
\* text was sent and the webhook answered
C25_Witness ==
    \E w \in Workers :
        /\ Completed(rq[w]) /\ rq[w].path = <<"text">>
        /\ rq[w].failed = {"completion"} /\ rq[w].sent = Some(TechnicalReply)
        /\ rq[w].status = 200

\* ------------------------------------------------------- claims: redelivery
\* send_message was called and the platform answered 200
Delivered(r) == r.choices # <<>> /\ r.choices[Len(r.choices)] = <<"send", "ok">>
\* the conversation entries with the ids of a list
Entries(ids) == {e \in {conversations[i] : i \in DOMAIN conversations} : \E k \in DOMAIN ids : e.id = ids[k]}

\* C26: for a message or edited message of a chat the webhook answers 200
\* exactly when send_message got HTTP 200 and 500 otherwise; after a failed
\* send the writes of the handling are all in place when the update is
\* delivered again, and stay while it is handled again (unless it is a
\* /clear); a text handled again without failure appends its user entry and
\* an assistant entry again, so that the store holds the inbound entry twice,
\* and so does a photo or document for its inbound note.
C26_AckFollowsSend ==
    /\ \A w \in Workers :
          LET r == rq[w]
          IN (Answered(r) /\ Msg(r).chat) =>
                /\ r.status = 200 <=> Delivered(r)
                /\ r.status \in {200, 500}
                /\ r.sends = 0 => r.failed \cap {"config"} # {}
    /\ probe.op = "redelivered" =>
          LET f == probe.first
              e == rq[1]
          IN /\ f.status = 500 /\ ~Delivered(f) /\ e.update = f.update
             /\ f.ids # <<>> => probe.snap.conversations # <<>>
             /\ \A k \in DOMAIN f.ids :
                    \E i \in DOMAIN probe.snap.conversations :
                        /\ probe.snap.conversations[i].id = f.ids[k]
                        /\ probe.snap.conversations[i].content = f.appended[k].content
             /\ \A id \in f.fms : \E i \in DOMAIN probe.snap.file_messages :
                    probe.snap.file_messages[i].id = id
             /\ (f.user # None) => \E u \in probe.snap.users : u.telegram_id = Sender(f)
             /\ e.path # <<"command">> =>
                    /\ \A i \in DOMAIN probe.snap.conversations :
                           i \in DOMAIN conversations /\ conversations[i] = probe.snap.conversations[i]
                    /\ \A i \in DOMAIN probe.snap.file_messages :
                           /\ i \in DOMAIN file_messages
                           /\ file_messages[i].id = probe.snap.file_messages[i].id
             /\ (e.ids # <<>> /\ f.ids # <<>>) =>
                    /\ e.ids[1] # f.ids[1]
                    /\ e.appended[1] = f.appended[1] /\ e.appended[1].message_type = "user"
                    /\ Cardinality(Entries(<<e.ids[1], f.ids[1]>>)) = 2
             /\ (e.pc = "done" /\ e.path = <<"text">> /\ e.failed \subseteq {"send"}) =>
                    /\ Len(e.ids) = 2
                    /\ e.appended[1] = [message_type |-> "user", content |-> Text(e)]
                    /\ Len(Of(conversations, Sender(e))) = Len(Of(probe.snap.conversations, Sender(e))) + 2

\* "Hi" was answered but the reply could not be sent; delivered again and
\* handled without failure, the store holds "Hi" of the sender twice and two
\* assistant entries
C26_Witness ==
    /\ probe.op = "redelivered"
    /\ probe.first.path = <<"text">> /\ probe.first.failed = {"send"} /\ probe.first.status = 500
    /\ rq[1].pc = "done" /\ rq[1].status = 200 /\ rq[1].failed = {}
    /\ Len(SelectSeq(Of(conversations, 1), LAMBDA x : x.message_type = "user" /\ x.content = T_Hi)) = 2
    /\ Len(Of(conversations, 1)) = 4

\* ----------------------------------------------- claims: processed records
\* the reply of the request is the text of an except clause of analyze_image
\* or analyze_document
FellBack(r) == r.reply \in {Some(ImageFailedReply), Some(DocFailedReply)}

\* C27: once a photo or document has been handled, every FileMessage created
\* for it is processed unless the reply is the fallback text of the analysis
\* method: a reply with the analysis leaves no FileMessage of the update
\* unprocessed.
C27_AllProcessed ==
    \A w \in Workers :
        LET r == rq[w]
        IN (r.pc = "done" /\ Routed(r) /\ IsMedia(r)) =>
              \A id \in r.fms : \A f \in Stored(id) : ~f.processed => FellBack(r)

\* ------------------------------------------------ claims: profile and media
\* C28: no step of the handling of a photo or document changes the User the
\* sender already has: username, first name, last name and updated-at stay
\* as stored.
C28_MediaKeepsProfile ==
    [][\A w \in Workers :
          (IsMedia(rq[w]) /\ rq'[w] # rq[w]) =>
              \A u \in users : u.telegram_id = Sender(rq[w]) => u \in users'
      ]_vars

\* --------------------------------------------------------- claims: typing
\* the positions of the calls of one kind in the record of a request
Calls(r, what) == {i \in DOMAIN r.choices : r.choices[i][1] = what}
\* the update carries a message with a chat and the bot was obtained
Entered(r) ==
    /\ r.update.kind \in {"message", "edited_message"} /\ Msg(r).chat
    /\ r.pc \notin {"idle", "get_bot", "bot_init", "set_webhook", "handle"}
    /\ "config" \notin r.failed

FilesOf(coll, uid) == SelectSeq(coll, LAMBDA f : f.user = str(uid))
UsersOf(coll, uid) == {u \in coll : u.telegram_id = uid}
\* the ids of the entries the last call of the request returned
Fetched(r) == {r.choices[Len(r.choices)][k] : k \in 2..Len(r.choices[Len(r.choices)])}

\* C30: a step of the handling of an update of user A leaves the conversation
\* entries, the FileMessages and the User of every other user B as they are,
\* whatever the update is (/clear included), and the entries fetched for the
\* prompt of A are entries of A.
C30_Isolation ==
    [][\A w \in Workers :
          (rq'[w] # rq[w] /\ rq[w].pc \notin {"idle", "done"}) =>
              /\ \A b \in UserIds \ {Sender(rq[w])} :
                    /\ Of(conversations', b) = Of(conversations, b)
                    /\ FilesOf(file_messages', b) = FilesOf(file_messages, b)
                    /\ UsersOf(users', b) = UsersOf(users, b)
              /\ (rq[w].pc = "context" /\ rq'[w].pc = "complete") =>
                    /\ Fetched(rq'[w]) \subseteq
                          {str(e.id) : e \in {conversations[i] : i \in {j \in DOMAIN conversations :
                                                  conversations[j].user = str(Sender(rq[w]))}}}
                    /\ Len(rq'[w].prompt[1].lines)
                          <= Len(Of(conversations, Sender(rq[w])))
      ]_vars

\* user 1 has two entries; "Hi" of user 2 was handled with a prompt of one
\* line, and the entries of user 1 are still there
C30_Witness ==
    \E w \in Workers :
        /\ rq[w].pc = "done" /\ Sender(rq[w]) = 2 /\ rq[w].path = <<"text">> /\ rq[w].failed = {}
        /\ rq[w].prompt # None /\ Len(rq[w].prompt[1].lines) = 1
        /\ Len(Of(conversations, 1)) = 2 /\ Len(Of(conversations, 2)) = 2
        /\ UsersOf(users, 1) # {} /\ UsersOf(users, 2) # {}

====
